---- MODULE Spec2Model ----
(***************************************************************************)
(* Model of the real-time duplex audio session engine of src/index.tsx     *)
(* (class GdmLiveAudio): session handling, playback scheduling, the turn   *)
(* and transcript state machine, prosody rate, tone classification, the    *)
(* screen-share frame pacer and the nudge command.                         *)
(*                                                                         *)
(* One action is one handler step of the single JavaScript thread: the     *)
(* synchronous code of the handler up to its next await, together with the *)
(* promise callbacks (microtasks) it makes runnable.  Every await on an    *)
(* external completion (decode, device access, encode, classification) is  *)
(* a separate action that may fire after any delay and in any order.       *)
(*                                                                         *)
(* Times are integers (clock ticks); rates are in hundredths (100 = 1.0).  *)
(* Texts are sequences of one-character strings.  Ids start at 1 and 0     *)
(* stands for null / undefined.                                            *)
(***************************************************************************)
EXTENDS Integers, Sequences, FiniteSets, TLC

(* ------------------------------ bounds -------------------------------- *)
MaxWords == 42
MaxSuffix == 3
MaxClock == 3
MaxFrags == 2
MaxSessions == 2
MaxMsgs == 3
MaxTone == 2
MaxChunks == 2
MaxStreams == 2
MaxBlobs == 2
MaxNudges == 1
MaxShares == 1
MaxTurnMsgs == 2

VARIABLES
  \* engine fields (src/index.tsx:28-66)
  isRecording, isSharingScreen, status, error, manualInputText, transcript,
  liveInputText, liveOutputText, conversationTone, visualTone,
  sessionPromise, nextStartTime, mediaStream, screenStream,
  scriptProcessorNode, sources, frameInterval, lastFrameData,
  currentInput, currentOutput,
  \* the remote channel: one entry per session ever created
  sessions, thens, sent,
  \* output audio context: clock, decodes in flight, history of sources
  now, decoding, started, stopped, ended, nFrag, epoch,
  \* pending capability calls
  toneCalls, nTone, ttsCalls,
  \* microphone
  micReqs, liveMic, liveProc, nStream, nBlock,
  \* screen capture
  screenReqs, playReqs, liveScreen, timers, nTimer, screenFrame, blobs,
  nBlob, shareEpoch, nChunks,
  \* nudge status timers
  nudgeTimers, nNudge,
  \* bookkeeping: the last handler step taken and the messages delivered
  lastEvent, nMsgs,
  \* inputs of the pure-function check
  rateText, rateOut

engineVars == <<isRecording, isSharingScreen, status, error, manualInputText>>
turnVars == <<transcript, liveInputText, liveOutputText, currentInput,
              currentOutput>>
toneVars == <<conversationTone, visualTone, toneCalls, nTone, ttsCalls>>
chanVars == <<sessionPromise, sessions, thens, sent, nChunks, nMsgs>>
playVars == <<nextStartTime, sources, now, decoding, started, stopped, ended,
              nFrag, epoch>>
micVars == <<mediaStream, scriptProcessorNode, micReqs, liveMic, liveProc,
             nStream, nBlock>>
shareVars == <<screenStream, frameInterval, lastFrameData, screenReqs,
               playReqs, liveScreen, timers, nTimer, screenFrame, blobs,
               nBlob, shareEpoch>>
miscVars == <<nudgeTimers, nNudge, rateText, rateOut>>
vars == <<engineVars, turnVars, toneVars, chanVars, playVars, micVars,
          shareVars, miscVars, lastEvent>>

(* ------------------------------ helpers ------------------------------- *)
Max(a, b) == IF a >= b THEN a ELSE b
Min(a, b) == IF a <= b THEN a ELSE b

RECURSIVE Repeat(_, _)
Repeat(s, n) == IF n = 0 THEN <<>> ELSE s \o Repeat(s, n - 1)

RECURSIVE SeqsUpTo(_, _)
SeqsUpTo(S, n) ==
  IF n = 0 THEN {<<>>}
  ELSE LET shorter == SeqsUpTo(S, n - 1)
       IN  shorter \cup {Append(s, c) : s \in shorter, c \in S}

(* --------------------------- text functions --------------------------- *)
IsWS(c) == c \in {" ", "\n"}

\* String.prototype.toLowerCase, one character at a time
LowerChar(c) ==
  CASE c = "A" -> "a"
    [] c = "H" -> "h"
    [] c = "R" -> "r"
    [] OTHER -> c

toLowerCase(t) == [i \in 1..Len(t) |-> LowerChar(t[i])]

RECURSIVE TrimStart(_)
TrimStart(t) ==
  IF t # <<>> /\ IsWS(Head(t)) THEN TrimStart(Tail(t)) ELSE t

RECURSIVE TrimEnd(_)
TrimEnd(t) ==
  IF t # <<>> /\ IsWS(t[Len(t)]) THEN TrimEnd(SubSeq(t, 1, Len(t) - 1))
  ELSE t

\* String.prototype.trim
trim(t) == TrimEnd(TrimStart(t))

\* String.prototype.split(/\s+/): the pieces between maximal runs of
\* whitespace; the empty text gives one empty piece.
RECURSIVE SplitFrom(_, _, _, _)
SplitFrom(t, i, cur, acc) ==
  IF i > Len(t) THEN Append(acc, cur)
  ELSE IF IsWS(t[i])
       THEN IF i > 1 /\ IsWS(t[i - 1])
            THEN SplitFrom(t, i + 1, cur, acc)
            ELSE SplitFrom(t, i + 1, <<>>, Append(acc, cur))
       ELSE SplitFrom(t, i + 1, Append(cur, t[i]), acc)

split(t) == SplitFrom(t, 1, <<>>, <<>>)

\* Array.prototype.filter(Boolean) on strings: drops the empty ones
filterBoolean(pieces) == SelectSeq(pieces, LAMBDA p : p # <<>>)

includes(t, c) == \E i \in 1..Len(t) : t[i] = c

\* Math.max(0.95, Math.min(1.1, rate)) in hundredths
Clamp(rate) == Max(95, Min(110, rate))

\* A variant that counts every punctuation mark and returns the sum as is.
calculatePlaybackRatePerMark(text) ==
  LET normalizedText == trim(toLowerCase(text))
      wordCount == Len(filterBoolean(split(normalizedText)))
      r1 == IF wordCount > 40 THEN 98
            ELSE IF wordCount > 0 /\ wordCount < 8 THEN 102 ELSE 100
      bangs == Cardinality({i \in 1..Len(text) : text[i] = "!"})
      asks == Cardinality({i \in 1..Len(text) : text[i] = "?"})
  IN  r1 + 4 * bangs + 3 * asks

\* A variant whose short-text branch forgets the wordCount > 0 test.
calculatePlaybackRateNoZeroTest(text) ==
  LET normalizedText == trim(toLowerCase(text))
      wordCount == Len(filterBoolean(split(normalizedText)))
      r1 == IF wordCount > 40 THEN 98
            ELSE IF wordCount < 8 THEN 102 ELSE 100
      r2 == IF includes(normalizedText, "!") THEN r1 + 4 ELSE r1
      r3 == IF includes(normalizedText, "?") THEN r2 + 3 ELSE r2
  IN  Clamp(r3)

calculatePlaybackRate(text) ==
  LET normalizedText == trim(toLowerCase(text))
      wordCount == Len(filterBoolean(split(normalizedText)))
      r1 == IF wordCount > 40 THEN 100 - 2
            ELSE IF wordCount > 0 /\ wordCount < 8 THEN 100 + 2 ELSE 100
      r2 == IF includes(normalizedText, "!") THEN r1 + 4 ELSE r1
      r3 == IF includes(normalizedText, "?") THEN r2 + 3 ELSE r2
  IN  Clamp(r3)

(* ------------------------------ constants ----------------------------- *)
ValidTones == {"Neutral", "Contemplative", "Annoyed", "Curious", "Witty",
               "Melancholic"}

\* audioBuffer.duration / playbackRate, rounded down to a whole tick
Perceived(dur, rate) == (dur * 100) \div rate

(* ------------------------- the duplex channel ------------------------- *)
\* A session is "connecting" (sessionPromise pending), "open" (resolved),
\* "closing" (close() called, close event not yet delivered), "closed", or
\* "failed" (sessionPromise rejected: its callbacks never run).
Live(s) == s \in {"connecting", "open"}

\* A call of sessionPromise.then(callback): its place in the order of all
\* such calls, and whether the promise was still pending when it was made.
Ticket ==
  [seq |-> nChunks + 1, conn |-> sessions[sessionPromise] = "connecting"]

NoTicket == [seq |-> 0, conn |-> FALSE]

\* A media chunk; tk is the ticket of the call that issued its send.
Chunk(kind, src, data, n, tk) ==
  [kind |-> kind, src |-> src, data |-> data, n |-> n, ep |-> shareEpoch,
   tk |-> tk]

\* createBlob(this.createNoiseChunk())
NoiseChunk(src, tk) == Chunk("audio", src, "noise", 0, tk)
ImageChunk(src, frame, tk) == Chunk("image", src, frame, 0, tk)

\* The part of the state that promise callbacks read and write.
ChanState == [sess |-> sessions, thens |-> thens, sent |-> sent,
              blobs |-> blobs, nBlob |-> nBlob]

\* session.sendRealtimeInput(...): delivered on an open socket only
SendOn(st, sid, chunks) ==
  IF st.sess[sid] = "open"
  THEN [st EXCEPT !.sent[sid] = @ \o chunks]
  ELSE st

\* canvas.toBlob(...) followed by await blobToBase64(blob): one pending
\* encode of the frame drawn at the time of the call
StartBlob(st, src, sid, tk) ==
  [st EXCEPT !.blobs = @ \cup {[id |-> st.nBlob + 1, src |-> src,
                                frame |-> screenFrame, sid |-> sid,
                                ep |-> shareEpoch, tk |-> tk]},
             !.nBlob = @ + 1]

\* nudgeAction(session), src/index.tsx:723-762
nudgeAction(st, sid, tk) ==
  IF isSharingScreen /\ screenFrame # "none"
  THEN StartBlob(st, "nudge", sid, tk)
  ELSE SendOn(st, sid, <<NoiseChunk("nudge", tk)>>)

\* One callback passed to sessionPromise.then(...)
RunThunk(st, sid, th) ==
  CASE th.op = "send" -> SendOn(st, sid, th.chunks)
    [] th.op = "nudge" -> nudgeAction(st, sid, th.tk)
    [] th.op = "close" ->
         IF st.sess[sid] = "open" THEN [st EXCEPT !.sess[sid] = "closing"]
         ELSE st

RECURSIVE RunThunks(_, _, _)
RunThunks(st, sid, ths) ==
  IF ths = <<>> THEN st
  ELSE RunThunks(RunThunk(st, sid, Head(ths)), sid, Tail(ths))

\* promise.then(callback): deferred while the promise is pending, never run
\* when it was rejected, and otherwise run as a microtask right after the
\* current handler.
Then(st, sid, th) ==
  CASE st.sess[sid] = "connecting" -> [st EXCEPT !.thens[sid] = Append(@, th)]
    [] st.sess[sid] = "failed" -> st
    [] OTHER -> RunThunk(st, sid, th)

SetChan(st) ==
  /\ sessions' = st.sess
  /\ thens' = st.thens
  /\ sent' = st.sent
  /\ blobs' = st.blobs
  /\ nBlob' = st.nBlob

Sids == 1..Len(sessions)

(* ------------------------------- Init --------------------------------- *)
\* The state after the constructor: initClient() has run initAudio() and
\* initSession(), so the first session is connecting.
EngineInit ==
  /\ isRecording = FALSE /\ isSharingScreen = FALSE
  /\ status = "" /\ error = "" /\ manualInputText = <<>>
  /\ transcript = <<>> /\ liveInputText = <<>> /\ liveOutputText = <<>>
  /\ conversationTone = 100 /\ visualTone = "Neutral"
  /\ sessionPromise = 1 /\ nextStartTime = 0
  /\ mediaStream = 0 /\ screenStream = 0 /\ scriptProcessorNode = 0
  /\ sources = {} /\ frameInterval = 0 /\ lastFrameData = "null"
  /\ currentInput = <<>> /\ currentOutput = <<>>
  /\ sessions = <<"connecting">> /\ thens = << <<>> >> /\ sent = << <<>> >>
  /\ now = 0 /\ decoding = {} /\ started = <<>> /\ stopped = {}
  /\ ended = {} /\ nFrag = 0 /\ epoch = 0
  /\ toneCalls = {} /\ nTone = 0 /\ ttsCalls = {}
  /\ micReqs = 0 /\ liveMic = {} /\ liveProc = {} /\ nStream = 0
  /\ nBlock = 0
  /\ screenReqs = 0 /\ playReqs = 0 /\ liveScreen = {} /\ timers = {}
  /\ nTimer = 0 /\ screenFrame = "none" /\ blobs = {} /\ nBlob = 0
  /\ shareEpoch = 0 /\ nChunks = 0
  /\ nudgeTimers = 0 /\ nNudge = 0
  /\ lastEvent = [op |-> "init"] /\ nMsgs = 0

Init == EngineInit /\ rateText = <<>> /\ rateOut = 0

(* ------------------------- session callbacks -------------------------- *)
\* The connect promise resolves: onopen runs (src/index.tsx:301-303), then
\* the callbacks waiting on sessionPromise, in the order they were added.
SessionOpen(sid) ==
  /\ sessions[sid] = "connecting"
  /\ status' = "Opened"
  /\ LET st0 == [ChanState EXCEPT !.sess[sid] = "open", !.thens[sid] = <<>>]
     IN  SetChan(RunThunks(st0, sid, thens[sid]))
  /\ lastEvent' = [op |-> "open", sid |-> sid]
  /\ UNCHANGED <<isRecording, isSharingScreen, error, manualInputText,
                 turnVars, toneVars, sessionPromise, nChunks, nMsgs, playVars,
                 micVars, screenStream, frameInterval, lastFrameData,
                 screenReqs, playReqs, liveScreen, timers, nTimer,
                 screenFrame, shareEpoch, miscVars>>

\* analyzeAndSetVisualTone(text) up to its await, for a non-empty text:
\* the classification request is in flight.
ToneCall(text) == [id |-> nTone + 1, text |-> text]

\* The interrupted branch of onmessage, src/index.tsx:349-356: the cursor
\* after it.
InterruptCursorKept(cursor) == cursor
InterruptCursor(cursor) == 0

\* The transcript after the turn-complete branch, src/index.tsx:325-340,
\* given the two accumulators.
commitTranscriptAgentFirst(tr, in1, out1) ==
  LET t1 == IF out1 # <<>>
            THEN Append(tr, [speaker |-> "Vlad", text |-> out1]) ELSE tr
  IN  IF in1 # <<>>
      THEN Append(t1, [speaker |-> "You", text |-> in1]) ELSE t1

commitTranscript(tr, in1, out1) ==
  LET t1 == IF in1 # <<>>
            THEN Append(tr, [speaker |-> "You", text |-> in1]) ELSE tr
  IN  IF out1 # <<>>
      THEN Append(t1, [speaker |-> "Vlad", text |-> out1]) ELSE t1

\* The live mirror of an accumulator after a message, src/index.tsx:313-322:
\* assigned from the accumulator when the message carries a transcription.
liveMirrorStale(has, acc, live) == live
liveMirror(has, acc, live) == IF has THEN acc ELSE live

\* onmessage, src/index.tsx:304-357.  audio = 0 means no inline audio.
OnMessage(sid, m) ==
  /\ sessions[sid] = "open"
  /\ nMsgs < MaxMsgs
  /\ m.audio # 0 => nFrag < MaxFrags
  /\ nMsgs' = nMsgs + 1
  /\ LET cursor1 == IF m.audio # 0 THEN Max(nextStartTime, now)
                    ELSE nextStartTime
         in1 == IF m.hasIn THEN currentInput \o m.inText ELSE currentInput
         out1 == IF m.hasOut THEN currentOutput \o m.outText
                 ELSE currentOutput
         live1 == liveMirror(m.hasIn, in1, liveInputText)
         live2 == liveMirror(m.hasOut, out1, liveOutputText)
     IN  /\ (m.turnComplete /\ out1 # <<>>) => nTone < MaxTone
         /\ IF m.audio # 0
            THEN /\ decoding' = decoding \cup
                       {[id |-> nFrag + 1, dur |-> m.audio,
                         rate |-> conversationTone, ep |-> epoch]}
                 /\ nFrag' = nFrag + 1
            ELSE UNCHANGED <<decoding, nFrag>>
         /\ IF m.turnComplete
            THEN /\ transcript' = commitTranscript(transcript, in1, out1)
                 /\ conversationTone' =
                      IF in1 # <<>> THEN calculatePlaybackRate(in1)
                      ELSE conversationTone
                 /\ IF out1 # <<>>
                    THEN /\ toneCalls' = toneCalls \cup {ToneCall(out1)}
                         /\ nTone' = nTone + 1
                    ELSE UNCHANGED <<toneCalls, nTone>>
                 /\ currentInput' = <<>> /\ currentOutput' = <<>>
                 /\ liveInputText' = <<>> /\ liveOutputText' = <<>>
            ELSE /\ currentInput' = in1 /\ currentOutput' = out1
                 /\ liveInputText' = live1 /\ liveOutputText' = live2
                 /\ UNCHANGED <<transcript, conversationTone, toneCalls,
                                nTone>>
         /\ IF m.interrupted
            THEN /\ stopped' = stopped \cup sources
                 /\ sources' = {}
                 /\ nextStartTime' = InterruptCursor(cursor1)
                 /\ epoch' = epoch + 1
            ELSE /\ nextStartTime' = cursor1
                 /\ UNCHANGED <<stopped, sources, epoch>>
  /\ lastEvent' = [op |-> "message", sid |-> sid, msg |-> m,
                   said |-> IF m.hasIn THEN currentInput \o m.inText
                            ELSE currentInput]
  /\ UNCHANGED <<engineVars, visualTone, ttsCalls, sessionPromise, sessions,
                 thens, sent, nChunks, now, started, ended, micVars,
                 shareVars, miscVars>>

(* ------------------------- playback scheduler ------------------------- *)
\* The time passed to source.start(...), src/index.tsx:517
StartArg(cursor, clock) == cursor

\* decodeAudioData of ./utils, awaited at src/index.tsx:501-506: the decode
\* is a suspension point, and of the decodes in flight any one may be the
\* next to complete.
decodeAudioData(inflight) == inflight

\* playAudio after its await, src/index.tsx:507-521: the decode of fragment
\* f has completed.
DecodeDone(f) ==
  /\ f \in decodeAudioData(decoding)
  /\ decoding' = decoding \ {f}
  /\ LET at == StartArg(nextStartTime, now)
     IN  /\ started' = Append(started,
                          [id |-> f.id, at |-> at, clock |-> now,
                           dur |-> f.dur, rate |-> f.rate, ep |-> epoch,
                           callEp |-> f.ep])
         /\ nextStartTime' = at + Perceived(f.dur, f.rate)
  /\ sources' = sources \cup {f.id}
  /\ lastEvent' = [op |-> "decodeDone", id |-> f.id]
  /\ UNCHANGED <<engineVars, turnVars, toneVars, chanVars, now, stopped,
                 ended, nFrag, epoch, micVars, shareVars, miscVars>>

\* The moment a started source begins to sound, and the moment it ends.
ActualStart(r) == Max(r.at, r.clock)
ActualEnd(r) == ActualStart(r) + Perceived(r.dur, r.rate)

StartedOf(i) == CHOOSE k \in 1..Len(started) : started[k].id = i

\* The 'ended' listener of a source that played to its end,
\* src/index.tsx:513-515.
SourceEnded(i) ==
  /\ i \in sources
  /\ now >= ActualEnd(started[StartedOf(i)])
  /\ sources' = sources \ {i}
  /\ ended' = ended \cup {i}
  /\ lastEvent' = [op |-> "ended", id |-> i]
  /\ UNCHANGED <<engineVars, turnVars, toneVars, chanVars, nextStartTime,
                 now, decoding, started, stopped, nFrag, epoch, micVars,
                 shareVars, miscVars>>

\* outputAudioContext.currentTime advances.
Tick ==
  /\ now < MaxClock
  /\ now' = now + 1
  /\ lastEvent' = [op |-> "tick"]
  /\ UNCHANGED <<engineVars, turnVars, toneVars, chanVars, nextStartTime,
                 sources, decoding, started, stopped, ended, nFrag, epoch,
                 micVars, shareVars, miscVars>>


(* -------------------------- tone classifier --------------------------- *)
ToneText(l) ==
  CASE l = "Neutral" -> <<"N", "e", "u", "t", "r", "a", "l">>
    [] l = "Contemplative" ->
         <<"C", "o", "n", "t", "e", "m", "p", "l", "a", "t", "i", "v", "e">>
    [] l = "Annoyed" -> <<"A", "n", "n", "o", "y", "e", "d">>
    [] l = "Curious" -> <<"C", "u", "r", "i", "o", "u", "s">>
    [] l = "Witty" -> <<"W", "i", "t", "t", "y">>
    [] l = "Melancholic" ->
         <<"M", "e", "l", "a", "n", "c", "h", "o", "l", "i", "c">>

\* What generateContent may give back: a text, a response without text,
\* or a failure of the call.
TextResp(t) == [kind |-> "text", text |-> t]
ToneResponses ==
  {TextResp(ToneText(l)) : l \in ValidTones}
  \cup {TextResp(<<" ">> \o ToneText(l) \o <<"\n">>) : l \in ValidTones}
  \cup {TextResp(t) : t \in {<<>>, <<" ">>, <<"w", "i", "t", "t", "y">>,
                             <<"A", "n", "g", "r", "y">>,
                             ToneText("Witty") \o <<".">>,
                             ToneText("Witty") \o <<" ">> \o ToneText("Witty"),
                             <<"W", "i", "t", " ", "t", "y">>}}
  \cup {[kind |-> "notext", text |-> <<>>], [kind |-> "fail", text |-> <<>>]}

\* A variant that compares the response without trimming it.
ToneOfNoTrim(resp) ==
  IF resp.kind # "text" THEN "Neutral"
  ELSE IF \E l \in ValidTones : ToneText(l) = resp.text
       THEN CHOOSE l \in ValidTones : ToneText(l) = resp.text
       ELSE "Neutral"

\* analyzeAndSetVisualTone after its await, src/index.tsx:449-467: the
\* value assigned to visualTone.  A response without text makes
\* response.text.trim() throw, which the catch turns into 'Neutral'.
ToneOf(resp) ==
  IF resp.kind # "text" THEN "Neutral"
  ELSE LET tone == trim(resp.text)
       IN  IF \E l \in ValidTones : ToneText(l) = tone
           THEN CHOOSE l \in ValidTones : ToneText(l) = tone
           ELSE "Neutral"

ToneDone(c, resp) ==
  /\ c \in toneCalls
  /\ toneCalls' = toneCalls \ {c}
  /\ visualTone' = ToneOf(resp)
  /\ lastEvent' = [op |-> "toneDone", id |-> c.id, resp |-> resp]
  /\ UNCHANGED <<engineVars, turnVars, conversationTone, nTone, ttsCalls,
                 chanVars, playVars, micVars, shareVars, miscVars>>

(* ------------------------- message alphabets -------------------------- *)
Msg(audio, hasIn, inText, hasOut, outText, turnComplete, interrupted) ==
  [audio |-> audio, hasIn |-> hasIn, inText |-> inText, hasOut |-> hasOut,
   outText |-> outText, turnComplete |-> turnComplete,
   interrupted |-> interrupted]

Durations == {1, 2}

\* audio and interruption only
PlayMsgs ==
  {Msg(a, FALSE, <<>>, FALSE, <<>>, FALSE, i) :
     a \in Durations \cup {0}, i \in BOOLEAN} \
  {Msg(0, FALSE, <<>>, FALSE, <<>>, FALSE, FALSE)}

\* partial transcriptions and turn-complete markers
Fragments == {<<"h", "i", "!">>, <<" ", "o", "k">>}

TextOpts ==
  {[has |-> FALSE, text |-> <<>>]} \cup
  {[has |-> TRUE, text |-> f] : f \in Fragments}

TurnMsgs ==
  {Msg(0, i.has, i.text, o.has, o.text, tc, FALSE) :
     i \in TextOpts, o \in TextOpts, tc \in BOOLEAN} \
  {Msg(0, FALSE, <<>>, FALSE, <<>>, FALSE, FALSE)}

(* ----------------------- prosody rate, in isolation ------------------- *)
Alphabet == {"a", "A", " ", "!", "?"}

Ok == <<"o", "k">>
ReallyQ == <<"R", "e", "a", "l", "l", "y", "?", "!">>
HiBang == <<"H", "i", "!">>
FiftyQ == Repeat(<<"w", " ">>, 49) \o <<"w", "?">>

RateInputs ==
  {Repeat(<<"a", " ">>, n) \o s :
     n \in 0..MaxWords, s \in SeqsUpTo(Alphabet, MaxSuffix)}
  \cup {Ok, ReallyQ, HiBang, FiftyQ}

InitRate == EngineInit /\ rateText \in RateInputs /\ rateOut = 0

ApplyRate ==
  /\ rateOut = 0
  /\ rateOut' = calculatePlaybackRate(rateText)
  /\ lastEvent' = [op |-> "rate"]
  /\ UNCHANGED <<engineVars, turnVars, toneVars, chanVars, playVars, micVars,
                 shareVars, nudgeTimers, nNudge, rateText>>

\* The user says rateText and the turn completes.
NextRate ==
  \/ ApplyRate
  \/ SessionOpen(1)
  \/ /\ nMsgs < 1
     /\ OnMessage(1, Msg(0, TRUE, rateText, FALSE, <<>>, TRUE, FALSE))

SpecRate == InitRate /\ [][NextRate]_vars

(* ----------------------------- playback ------------------------------- *)
NextPlay ==
  \/ SessionOpen(1)
  \/ \E m \in PlayMsgs : OnMessage(1, m)
  \/ \E f \in decoding : DecodeDone(f)
  \/ \E i \in sources : SourceEnded(i)
  \/ Tick

SpecPlay == Init /\ [][NextPlay]_vars


(* ------------------------- claims: playback --------------------------- *)
\* started[k] was cut off by an interruption before started[k+1] began
SameEpoch(k) == started[k + 1].ep = started[k].ep

\* C1: of two fragments started one after the other (with no interruption
\* between the two starts), the later one begins to sound no earlier than
\* the earlier one ends: start(n+1) >= start(n) + duration(n)/rate(n).
C1_NoOverlap ==
  \A k \in 1..(Len(started) - 1) :
    SameEpoch(k) => ActualStart(started[k + 1]) >= ActualEnd(started[k])

\* started[k] is the first fragment scheduled after an interruption
FirstAfterInterrupt(k) ==
  /\ started[k].ep > 0
  /\ k = 1 \/ started[k - 1].ep < started[k].ep

\* C2: right after a message with the interrupted flag, the active source
\* set is empty and every source ever started has been stopped or has
\* ended; the first fragment scheduled after an interruption is admitted
\* at the output clock's current time (its start time is not in the
\* future).
C2_Interruption ==
  /\ (lastEvent.op = "message" /\ lastEvent.msg.interrupted) =>
       /\ sources = {}
       /\ \A k \in 1..Len(started) : started[k].id \in stopped \cup ended
  /\ \A k \in 1..Len(started) :
       FirstAfterInterrupt(k) => ActualStart(started[k]) = started[k].clock

\* A fragment was cut off while the cursor was ahead of the clock, and the
\* next fragment was scheduled after the interruption.
C2_Witness ==
  \E k \in 2..Len(started) :
    /\ FirstAfterInterrupt(k)
    /\ started[k - 1].id \in stopped
    /\ ActualEnd(started[k - 1]) > started[k].clock


(* ----------------------- turns and transcript ------------------------- *)
NextTurn ==
  \/ SessionOpen(1)
  \/ \E m \in TurnMsgs : nMsgs < MaxTurnMsgs /\ OnMessage(1, m)
  \/ \E c \in toneCalls, r \in ToneResponses : ToneDone(c, r)

SpecTurn == Init /\ [][NextTurn]_vars

(* --------------------- claims: turns and tone ------------------------- *)
TextOr(has, t) == IF has THEN t ELSE <<>>

\* C3: a turn-complete message appends the User entry (if the accumulated
\* input is non-empty) and then the Agent entry (if the accumulated output
\* is non-empty) and nothing else, and leaves both accumulators and both
\* live mirrors empty when the handler returns.
C3_TurnCommit ==
  [][(lastEvent'.op = "message" /\ lastEvent'.msg.turnComplete) =>
       LET m == lastEvent'.msg
           accIn == currentInput \o TextOr(m.hasIn, m.inText)
           accOut == currentOutput \o TextOr(m.hasOut, m.outText)
           you == IF accIn = <<>> THEN <<>>
                  ELSE <<[speaker |-> "You", text |-> accIn]>>
           vlad == IF accOut = <<>> THEN <<>>
                   ELSE <<[speaker |-> "Vlad", text |-> accOut]>>
       IN  /\ transcript' = transcript \o you \o vlad
           /\ currentInput' = <<>> /\ currentOutput' = <<>>
           /\ liveInputText' = <<>> /\ liveOutputText' = <<>>]_vars

\* A turn with both texts has been committed: the transcript ends with a
\* User entry followed by an Agent entry.
C3_Witness ==
  /\ lastEvent.op = "message" /\ lastEvent.msg.turnComplete
  /\ Len(transcript) >= 2
  /\ transcript[Len(transcript) - 1].speaker = "You"
  /\ transcript[Len(transcript)].speaker = "Vlad"
  /\ Len(transcript[Len(transcript)].text) > 3
  /\ currentInput = <<>> /\ liveOutputText = <<>>

\* The label a response stands for: the one valid label that the text
\* spells once, with nothing but whitespace around it.
C7_Expected(resp) ==
  LET t == resp.text
      Spells(l) ==
        \E a \in 1..Len(t) : \E b \in a..Len(t) :
          /\ SubSeq(t, a, b) = ToneText(l)
          /\ \A k \in 1..Len(t) : (k < a \/ k > b) => IsWS(t[k])
  IN  IF resp.kind = "text" /\ \E l \in ValidTones : Spells(l)
      THEN CHOOSE l \in ValidTones : Spells(l)
      ELSE "Neutral"

\* C7: when a classification call completes, visualTone becomes the
\* returned label if the trimmed response is one of the six labels and
\* 'Neutral' for every other response and for a failed call; nothing else
\* of the conversation changes.
C7_ToneResult ==
  [][lastEvent'.op = "toneDone" =>
       /\ visualTone' = C7_Expected(lastEvent'.resp)
       /\ UNCHANGED <<transcript, currentInput, currentOutput, liveInputText,
                      liveOutputText, isRecording, isSharingScreen, error,
                      status, conversationTone, nextStartTime, sources,
                      decoding, started>>]_vars

\* A padded valid label was accepted.
C7_Witness ==
  /\ lastEvent.op = "toneDone"
  /\ visualTone = "Witty"
  /\ lastEvent.resp.text # ToneText("Witty")


(* ---------------------------- microphone ------------------------------ *)
\* inputAudioContext is created with the element (src/index.tsx:43-44) and
\* never assigned again: it is always truthy.
inputAudioContext == TRUE

\* The test at the head of stopRecording, src/index.tsx:585-586
stopRecordingSkips ==
  ~isRecording /\ mediaStream = 0 /\ ~inputAudioContext

\* stopRecording, src/index.tsx:584-606, as the values it leaves when it
\* is called with status cur.
stopRecording(cur) ==
  IF stopRecordingSkips
  THEN [isRecording |-> isRecording, liveProc |-> liveProc,
        scriptProcessorNode |-> scriptProcessorNode, liveMic |-> liveMic,
        mediaStream |-> mediaStream, status |-> cur]
  ELSE [isRecording |-> FALSE,
        liveProc |-> liveProc \ {scriptProcessorNode},
        scriptProcessorNode |-> 0,
        liveMic |-> liveMic \ {mediaStream},
        mediaStream |-> 0,
        status |-> "Recording stopped. Click Start to begin again."]

SetMic(r) ==
  /\ isRecording' = r.isRecording
  /\ liveProc' = r.liveProc
  /\ scriptProcessorNode' = r.scriptProcessorNode
  /\ liveMic' = r.liveMic
  /\ mediaStream' = r.mediaStream

\* The test at the head of startRecording, src/index.tsx:533-535
startRecordingSkipsNever(rec) == FALSE
startRecordingSkips(rec) == rec

\* startRecording up to its await, src/index.tsx:532-545
StartRecording ==
  /\ nStream + micReqs + screenReqs < MaxStreams
  /\ IF startRecordingSkips(isRecording)
     THEN UNCHANGED <<status, micReqs>>
     ELSE /\ status' = "Requesting microphone access..."
          /\ micReqs' = micReqs + 1
  /\ lastEvent' = [op |-> "startRecording", was |-> isRecording]
  /\ UNCHANGED <<isRecording, isSharingScreen, error, manualInputText,
                 turnVars, toneVars, chanVars, playVars, mediaStream,
                 scriptProcessorNode, liveMic, liveProc, nStream, nBlock,
                 shareVars, miscVars>>

\* getUserMedia resolved: src/index.tsx:547-576
MicGranted ==
  /\ micReqs > 0
  /\ micReqs' = micReqs - 1
  /\ nStream' = nStream + 1
  /\ mediaStream' = nStream + 1
  /\ liveMic' = liveMic \cup {nStream + 1}
  /\ scriptProcessorNode' = nStream + 1
  /\ liveProc' = liveProc \cup {nStream + 1}
  /\ isRecording' = TRUE
  /\ status' = "Recording... Capturing PCM chunks."
  /\ lastEvent' = [op |-> "micGranted"]
  /\ UNCHANGED <<isSharingScreen, error, manualInputText, turnVars, toneVars,
                 chanVars, playVars, nBlock, shareVars, miscVars>>

\* getUserMedia rejected: the catch, src/index.tsx:577-581
MicDenied ==
  /\ micReqs > 0
  /\ micReqs' = micReqs - 1
  /\ SetMic(stopRecording("Error: denied"))
  /\ status' = stopRecording("Error: denied").status
  /\ lastEvent' = [op |-> "micDenied"]
  /\ UNCHANGED <<isSharingScreen, error, manualInputText, turnVars, toneVars,
                 chanVars, playVars, nStream, nBlock, shareVars, miscVars>>

\* The stop button
StopRecording ==
  /\ SetMic(stopRecording(status))
  /\ status' = stopRecording(status).status
  /\ lastEvent' = [op |-> "stopRecording", was |-> isRecording,
                   held |-> mediaStream]
  /\ UNCHANGED <<isSharingScreen, error, manualInputText, turnVars, toneVars,
                 chanVars, playVars, micReqs, nStream, nBlock, shareVars,
                 miscVars>>

\* onaudioprocess of a connected processor, src/index.tsx:561-570
AudioProcess(p) ==
  /\ p \in liveProc
  /\ nBlock < MaxChunks
  /\ IF ~isRecording
     THEN UNCHANGED <<sessions, thens, sent, blobs, nBlob, nBlock, nChunks>>
     ELSE /\ nBlock' = nBlock + 1
          /\ nChunks' = nChunks + 1
          /\ SetChan(Then(ChanState, sessionPromise,
                          [op |-> "send",
                           chunks |-> <<Chunk("audio", "mic", "pcm",
                                              nBlock + 1, Ticket)>>]))
  /\ lastEvent' = [op |-> "audioprocess", node |-> p]
  /\ UNCHANGED <<engineVars, turnVars, toneVars, sessionPromise, nMsgs,
                 playVars, mediaStream, scriptProcessorNode, micReqs, liveMic,
                 liveProc, nStream, screenStream, frameInterval,
                 lastFrameData, screenReqs, playReqs, liveScreen, timers,
                 nTimer, screenFrame, shareEpoch, miscVars>>

(* --------------------------- screen share ----------------------------- *)
Frames == {"X", "Y"}

\* stopScreenShare, src/index.tsx:702-718, as the values it leaves
stopScreenShare ==
  IF ~isSharingScreen
  THEN [isSharingScreen |-> isSharingScreen, timers |-> timers,
        frameInterval |-> frameInterval, liveScreen |-> liveScreen,
        screenStream |-> screenStream, lastFrameData |-> lastFrameData,
        shareEpoch |-> shareEpoch, status |-> status, ran |-> FALSE]
  ELSE [isSharingScreen |-> FALSE, timers |-> timers \ {frameInterval},
        frameInterval |-> 0, liveScreen |-> liveScreen \ {screenStream},
        screenStream |-> 0, lastFrameData |-> "null",
        shareEpoch |-> shareEpoch + 1,
        status |-> "Screen sharing stopped.", ran |-> TRUE]

SetShare(r) ==
  /\ isSharingScreen' = r.isSharingScreen
  /\ timers' = r.timers
  /\ frameInterval' = r.frameInterval
  /\ liveScreen' = r.liveScreen
  /\ screenStream' = r.screenStream
  /\ lastFrameData' = r.lastFrameData
  /\ shareEpoch' = r.shareEpoch

\* toggleScreenShare, src/index.tsx:608-614; the start runs up to its
\* await of getDisplayMedia, src/index.tsx:627-636
ToggleScreenShare ==
  /\ IF isSharingScreen
     THEN /\ SetShare(stopScreenShare)
          /\ status' = stopScreenShare.status
          /\ UNCHANGED screenReqs
     ELSE /\ nStream + micReqs + screenReqs < MaxStreams
          /\ status' = "Requesting screen access..."
          /\ screenReqs' = screenReqs + 1
          /\ UNCHANGED <<isSharingScreen, timers, frameInterval, liveScreen,
                         screenStream, lastFrameData, shareEpoch>>
  /\ lastEvent' = [op |-> "toggleScreenShare", was |-> isSharingScreen]
  /\ UNCHANGED <<isRecording, error, manualInputText, turnVars, toneVars,
                 chanVars, playVars, micVars, playReqs, nTimer, screenFrame,
                 blobs, nBlob, miscVars>>

\* getDisplayMedia resolved: src/index.tsx:631-644, up to await play()
DisplayGranted ==
  /\ screenReqs > 0
  /\ screenReqs' = screenReqs - 1
  /\ nStream' = nStream + 1
  /\ screenStream' = nStream + 1
  /\ liveScreen' = liveScreen \cup {nStream + 1}
  /\ playReqs' = playReqs + 1
  /\ lastEvent' = [op |-> "displayGranted"]
  /\ UNCHANGED <<engineVars, turnVars, toneVars, chanVars, playVars,
                 mediaStream, scriptProcessorNode, micReqs, liveMic, liveProc,
                 nBlock, frameInterval, lastFrameData, timers, nTimer,
                 screenFrame, blobs, nBlob, shareEpoch, miscVars>>

\* getDisplayMedia rejected: the outer catch, src/index.tsx:695-699
DisplayDenied ==
  /\ screenReqs > 0
  /\ screenReqs' = screenReqs - 1
  /\ status' = "Screen share error: denied"
  /\ isSharingScreen' = FALSE
  /\ lastEvent' = [op |-> "displayDenied"]
  /\ UNCHANGED <<isRecording, error, manualInputText, turnVars, toneVars,
                 chanVars, playVars, micVars, screenStream, frameInterval,
                 lastFrameData, playReqs, liveScreen, timers, nTimer,
                 screenFrame, blobs, nBlob, shareEpoch, miscVars>>

\* screenVideoEl.play() resolved: src/index.tsx:651-657 and 694, the
\* frame timer is set
PlayOk ==
  /\ playReqs > 0
  /\ playReqs' = playReqs - 1
  /\ isSharingScreen' = TRUE
  /\ status' = "Screen sharing active."
  /\ nTimer' = nTimer + 1
  /\ frameInterval' = nTimer + 1
  /\ timers' = timers \cup {nTimer + 1}
  /\ lastEvent' = [op |-> "playOk"]
  /\ UNCHANGED <<isRecording, error, manualInputText, turnVars, toneVars,
                 chanVars, playVars, micVars, screenStream, lastFrameData,
                 screenReqs, liveScreen, screenFrame, blobs, nBlob,
                 shareEpoch, miscVars>>

\* screenVideoEl.play() rejected: the inner catch, src/index.tsx:645-650
PlayFail ==
  /\ playReqs > 0
  /\ playReqs' = playReqs - 1
  /\ error' = "Could not start screen share video playback."
  /\ SetShare(stopScreenShare)
  /\ status' = stopScreenShare.status
  /\ lastEvent' = [op |-> "playFail"]
  /\ UNCHANGED <<isRecording, manualInputText, turnVars, toneVars, chanVars,
                 playVars, micVars, screenReqs, nTimer, screenFrame, blobs,
                 nBlob, miscVars>>

\* The user ends the capture from the browser: the track's onended,
\* src/index.tsx:638-640
TrackEnded(t) ==
  /\ t \in liveScreen
  /\ LET r == stopScreenShare
     IN  /\ SetShare([r EXCEPT !.liveScreen = @ \ {t}])
         /\ status' = r.status
  /\ lastEvent' = [op |-> "trackEnded", stream |-> t]
  /\ UNCHANGED <<isRecording, error, manualInputText, turnVars, toneVars,
                 chanVars, playVars, micVars, screenReqs, playReqs, nTimer,
                 screenFrame, blobs, nBlob, miscVars>>

\* What the shared screen shows changes.
ScreenChange(f) ==
  /\ liveScreen # {}
  /\ screenFrame # f
  /\ screenFrame' = f
  /\ lastEvent' = [op |-> "screenChange"]
  /\ UNCHANGED <<engineVars, turnVars, toneVars, chanVars, playVars, micVars,
                 screenStream, frameInterval, lastFrameData, screenReqs,
                 playReqs, liveScreen, timers, nTimer, blobs, nBlob,
                 shareEpoch, miscVars>>

\* One firing of a running interval timer, src/index.tsx:657-673: the
\* frame is drawn and its encode started
FrameTick(t) ==
  /\ t \in timers
  /\ nBlob < MaxBlobs
  /\ IF ~isSharingScreen
     THEN UNCHANGED <<sessions, thens, sent, blobs, nBlob>>
     ELSE SetChan(StartBlob(ChanState, "pacer", 0, NoTicket))
  /\ lastEvent' = [op |-> "frameTick", timer |-> t]
  /\ UNCHANGED <<engineVars, turnVars, toneVars, sessionPromise, nChunks,
                 nMsgs, playVars, micVars, screenStream, frameInterval,
                 lastFrameData, screenReqs, playReqs, liveScreen, timers,
                 nTimer, screenFrame, shareEpoch, miscVars>>

\* The comparison that lets a pacer frame through, src/index.tsx:677
FrameAcceptedAlways(frame, last) == frame # "none"
FrameAccepted(frame, last) == frame # "none" /\ frame # last

\* The comparison a nudge frame goes through before it is sent: none,
\* src/index.tsx:741-743
NudgeFrameAcceptedIfNew(frame, last) == frame # "none" /\ frame # last
NudgeFrameAccepted(frame, last) == frame # "none"

\* What is sent for an encoded frame: the image and then a noise clip, in
\* one callback, src/index.tsx:679-686 and 743-750
framePairImageOnly(src, frame, tk) == <<ImageChunk(src, frame, tk)>>
framePair(src, frame, tk) ==
  <<ImageChunk(src, frame, tk), NoiseChunk(src, tk)>>

\* An encode completes (toBlob's callback and blobToBase64), for the
\* pacer src/index.tsx:674-690, for a nudge src/index.tsx:740-752
BlobDone(b) ==
  /\ b \in blobs
  /\ LET st0 == [ChanState EXCEPT !.blobs = @ \ {b}]
         pair(src, tk) == framePair(src, b.frame, tk)
     IN  IF b.src = "pacer"
         THEN IF FrameAccepted(b.frame, lastFrameData)
              THEN /\ lastFrameData' = b.frame
                   /\ nChunks' = nChunks + 1
                   /\ SetChan(Then(st0, sessionPromise,
                                   [op |-> "send",
                                    chunks |-> pair("pacer", Ticket)]))
              ELSE /\ SetChan(st0)
                   /\ UNCHANGED <<lastFrameData, nChunks>>
         ELSE /\ UNCHANGED <<lastFrameData, nChunks>>
              /\ IF NudgeFrameAccepted(b.frame, lastFrameData)
                 THEN SetChan(SendOn(st0, b.sid, pair("nudge", b.tk)))
                 ELSE SetChan(st0)
  /\ lastEvent' = [op |-> "blobDone", blob |-> b, last |-> lastFrameData]
  /\ UNCHANGED <<engineVars, turnVars, toneVars, sessionPromise,
                 nMsgs, playVars, micVars, screenStream, frameInterval,
                 screenReqs, playReqs, liveScreen, timers, nTimer,
                 screenFrame, shareEpoch, miscVars>>

(* ------------------------------- nudge -------------------------------- *)
\* nudgeVlad, src/index.tsx:720-771
NudgeVlad ==
  /\ nNudge < MaxNudges
  /\ nBlob < MaxBlobs
  /\ nNudge' = nNudge + 1
  /\ status' = "Nudging Vlad..."
  /\ nChunks' = nChunks + 1
  /\ SetChan(Then(ChanState, sessionPromise,
                  [op |-> "nudge", chunks |-> <<>>, tk |-> Ticket]))
  /\ nudgeTimers' = nudgeTimers + 1
  /\ lastEvent' = [op |-> "nudge", sharing |-> isSharingScreen,
                   frame |-> screenFrame, last |-> lastFrameData,
                   chan |-> sessions[sessionPromise]]
  /\ UNCHANGED <<isRecording, isSharingScreen, error, manualInputText,
                 turnVars, toneVars, sessionPromise, nMsgs, playVars,
                 micVars, screenStream, frameInterval, lastFrameData,
                 screenReqs, playReqs, liveScreen, timers, nTimer,
                 screenFrame, shareEpoch, rateText, rateOut>>

\* The status a nudge's timeout leaves, src/index.tsx:767-769
nudgeTimeoutStatusAlways(cur) == ""
nudgeTimeoutStatus(cur) == IF cur = "Nudging Vlad..." THEN "" ELSE cur

\* The 1.5 s timeout of a nudge, src/index.tsx:766-770
NudgeTimeout ==
  /\ nudgeTimers > 0
  /\ nudgeTimers' = nudgeTimers - 1
  /\ status' = nudgeTimeoutStatus(status)
  /\ lastEvent' = [op |-> "nudgeTimeout"]
  /\ UNCHANGED <<isRecording, isSharingScreen, error, manualInputText,
                 turnVars, toneVars, chanVars, playVars, micVars, shareVars,
                 nNudge, rateText, rateOut>>

(* -------------------------- manual utterance -------------------------- *)
\* What the user may have typed into the text field
ManualTexts == {<<"o", "k">>, <<" ">>}

\* handleTextInput, src/index.tsx:829-832
HandleTextInput(t) ==
  /\ manualInputText # t
  /\ manualInputText' = t
  /\ lastEvent' = [op |-> "textInput"]
  /\ UNCHANGED <<isRecording, isSharingScreen, status, error, turnVars,
                 toneVars, chanVars, playVars, micVars, shareVars, miscVars>>

\* The transcript after handleManualSay, src/index.tsx:848-851
appendManualEntryAlone(tr, text) == <<[speaker |-> "Vlad", text |-> text]>>
appendManualEntry(tr, text) == Append(tr, [speaker |-> "Vlad", text |-> text])

\* handleManualSay up to its await, src/index.tsx:840-862: the entry is
\* appended, the classification and the speech request are in flight.
HandleManualSay ==
  /\ nTone < MaxTone
  /\ IF trim(manualInputText) = <<>>
     THEN UNCHANGED <<manualInputText, status, transcript, toneCalls, nTone,
                      ttsCalls>>
     ELSE /\ manualInputText' = <<>>
          /\ status' = "Generating speech..."
          /\ transcript' = appendManualEntry(transcript, manualInputText)
          /\ toneCalls' = toneCalls \cup {ToneCall(manualInputText)}
          /\ nTone' = nTone + 1
          /\ ttsCalls' = ttsCalls \cup
                           {[id |-> nTone + 1, text |-> manualInputText]}
  /\ lastEvent' = [op |-> "manualSay", text |-> manualInputText]
  /\ UNCHANGED <<isRecording, isSharingScreen, error, liveInputText,
                 liveOutputText, currentInput, currentOutput,
                 conversationTone, visualTone, chanVars, playVars, micVars,
                 shareVars, miscVars>>

\* The speech request resolved, src/index.tsx:864-872; audio = 0 means a
\* response without inline audio.
TtsDone(c, audio) ==
  /\ c \in ttsCalls
  /\ ttsCalls' = ttsCalls \ {c}
  /\ IF audio # 0
     THEN /\ nFrag < MaxFrags
          /\ nextStartTime' = Max(nextStartTime, now)
          /\ decoding' = decoding \cup
                           {[id |-> nFrag + 1, dur |-> audio,
                             rate |-> calculatePlaybackRate(c.text),
                             ep |-> epoch]}
          /\ nFrag' = nFrag + 1
     ELSE UNCHANGED <<nextStartTime, decoding, nFrag>>
  /\ status' = ""
  /\ lastEvent' = [op |-> "ttsDone", id |-> c.id]
  /\ UNCHANGED <<isRecording, isSharingScreen, error, manualInputText,
                 turnVars, conversationTone, visualTone, toneCalls, nTone,
                 chanVars, sources, now, started, stopped, ended, epoch,
                 micVars, shareVars, miscVars>>

\* The speech request failed: the catch, src/index.tsx:873-876
TtsFail(c) ==
  /\ c \in ttsCalls
  /\ ttsCalls' = ttsCalls \ {c}
  /\ error' = "TTS Error: failed"
  /\ lastEvent' = [op |-> "ttsFail", id |-> c.id]
  /\ UNCHANGED <<isRecording, isSharingScreen, status, manualInputText,
                 turnVars, conversationTone, visualTone, toneCalls, nTone,
                 chanVars, playVars, micVars, shareVars, miscVars>>

(* ------------------------------- reset -------------------------------- *)
\* initSession, src/index.tsx:294-434: connect() hands back a pending
\* promise, which becomes sessionPromise.
initSession(st) ==
  [st EXCEPT !.sess = Append(@, "connecting"),
             !.thens = Append(@, <<>>),
             !.sent = Append(@, <<>>)]

\* A variant of reset that keeps the session it has.
resetSessionKept(st) == st

\* The session part of reset, src/index.tsx:824-825
resetSession(st) ==
  initSession(Then(st, sessionPromise, [op |-> "close", chunks |-> <<>>]))

\* reset, src/index.tsx:813-827
Reset ==
  /\ Len(sessions) < MaxSessions
  /\ SetMic(stopRecording(status))
  /\ SetShare(stopScreenShare)
  /\ transcript' = <<>>
  /\ liveInputText' = <<>> /\ liveOutputText' = <<>>
  /\ currentInput' = <<>> /\ currentOutput' = <<>>
  /\ LET st == resetSession(ChanState)
     IN  /\ SetChan(st)
         /\ sessionPromise' = Len(st.sess)
  /\ status' = "Session cleared."
  /\ lastEvent' = [op |-> "reset", old |-> sessionPromise,
                   oldState |-> sessions[sessionPromise],
                   wasRecording |-> isRecording,
                   wasSharing |-> isSharingScreen,
                   hadText |-> (transcript # <<>> /\ currentInput # <<>>)]
  /\ UNCHANGED <<error, manualInputText, toneVars, nChunks, nMsgs, playVars,
                 micReqs, nStream, nBlock, screenReqs, playReqs, nTimer,
                 screenFrame, miscVars>>

(* -------------------------- channel events ---------------------------- *)
\* The promise of connect(), src/index.tsx:298, is rejected: nothing in
\* the engine handles it, and the callbacks waiting on it never run.
SessionFail(sid) ==
  /\ sessions[sid] = "connecting"
  /\ sessions' = [sessions EXCEPT ![sid] = "failed"]
  /\ thens' = [thens EXCEPT ![sid] = <<>>]
  /\ lastEvent' = [op |-> "fail", sid |-> sid]
  /\ UNCHANGED <<engineVars, turnVars, toneVars, sessionPromise, sent,
                 nChunks, nMsgs, playVars, micVars, shareVars, miscVars>>

\* The close event of a socket: onclose, src/index.tsx:361-363
OnClose(sid) ==
  /\ sessions[sid] \in {"open", "closing"}
  /\ sessions' = [sessions EXCEPT ![sid] = "closed"]
  /\ status' = "Close:"
  /\ lastEvent' = [op |-> "close", sid |-> sid]
  /\ UNCHANGED <<isRecording, isSharingScreen, error, manualInputText,
                 turnVars, toneVars, sessionPromise, thens, sent, nChunks,
                 nMsgs, playVars, micVars, shareVars, miscVars>>


\* The messages of error events
ErrorTexts == {"network", "quota"}

\* The error text after an error event: onerror hands the event's message
\* to updateError, src/index.tsx:358-360 and 528-530
onerrorTextKept(cur, msg) == cur
onerrorText(cur, msg) == msg

\* The error event of a socket: onerror, src/index.tsx:358-360
OnError(sid, msg) ==
  /\ sessions[sid] \in {"connecting", "open", "closing"}
  /\ error' = onerrorText(error, msg)
  /\ lastEvent' = [op |-> "error", sid |-> sid, message |-> msg]
  /\ UNCHANGED <<isRecording, isSharingScreen, status, manualInputText,
                 turnVars, toneVars, chanVars, playVars, micVars, shareVars,
                 miscVars>>

(* ------------------- error events during a conversation --------------- *)
\* Agent audio, and a turn-complete marker with agent text
ErrMsgs ==
  {Msg(1, FALSE, <<>>, FALSE, <<>>, FALSE, FALSE),
   Msg(0, FALSE, <<>>, TRUE, <<"h", "i", "!">>, TRUE, FALSE)}

\* One recording, one share and playback, with error events of the session
NextErr ==
  \/ SessionOpen(1)
  \/ \E m \in ErrMsgs : nMsgs < MaxTurnMsgs /\ OnMessage(1, m)
  \/ \E f \in decoding : DecodeDone(f)
  \/ micReqs = 0 /\ nStream = 0 /\ StartRecording
  \/ MicGranted
  \/ /\ ~isSharingScreen /\ nTimer + screenReqs + playReqs = 0
     /\ ToggleScreenShare
  \/ DisplayGranted
  \/ PlayOk
  \/ \E msg \in ErrorTexts : error # msg /\ OnError(1, msg)

SpecErr == Init /\ [][NextErr]_vars

(* --------------------------- screen sharing --------------------------- *)
NextShare ==
  \/ SessionOpen(1)
  \/ /\ ~isSharingScreen => nStream + screenReqs < MaxShares
     /\ ToggleScreenShare
  \/ DisplayGranted
  \/ PlayOk
  \/ \E f \in Frames : ScreenChange(f)
  \/ \E t \in timers : FrameTick(t)
  \/ \E b \in blobs : BlobDone(b)
  \/ NudgeVlad

SpecShare == Init /\ [][NextShare]_vars

(* ---------------- sends issued while the session connects -------------- *)
\* Capture blocks, the frame pacer and the nudge command, all against the
\* first session.
NextQueue ==
  \/ SessionOpen(1)
  \/ StartRecording
  \/ MicGranted
  \/ \E p \in liveProc : AudioProcess(p)
  \/ /\ ~isSharingScreen => nTimer + screenReqs + playReqs < MaxShares
     /\ ToggleScreenShare
  \/ DisplayGranted
  \/ PlayOk
  \/ \E f \in Frames : ScreenChange(f)
  \/ \E t \in timers : FrameTick(t)
  \/ \E b \in blobs : BlobDone(b)
  \/ NudgeVlad

SpecQueue == Init /\ [][NextQueue]_vars

(* -------------- frame sends while the microphone is live -------------- *)
\* One recording and one share, started once each, a screen that shows
\* its first picture, the frame pacer and the nudge command.
NextPair ==
  \/ SessionOpen(1)
  \/ micReqs = 0 /\ nStream = 0 /\ StartRecording
  \/ MicGranted
  \/ \E p \in liveProc : AudioProcess(p)
  \/ /\ ~isSharingScreen /\ nTimer + screenReqs + playReqs = 0
     /\ ToggleScreenShare
  \/ DisplayGranted
  \/ PlayOk
  \/ \E f \in Frames : screenFrame = "none" /\ ScreenChange(f)
  \/ \E t \in timers : FrameTick(t)
  \/ \E b \in blobs : BlobDone(b)
  \/ NudgeVlad

SpecPair == Init /\ [][NextPair]_vars

(* ---------------------- microphone and screen ------------------------- *)
\* The device commands and the completions of their requests.
NextDev ==
  \/ StartRecording
  \/ MicGranted
  \/ MicDenied
  \/ StopRecording
  \/ ToggleScreenShare
  \/ DisplayGranted
  \/ DisplayDenied
  \/ PlayOk
  \/ PlayFail
  \/ \E t \in liveScreen : TrackEnded(t)
  \/ Reset

SpecDev == Init /\ [][NextDev]_vars

(* ------------------ nudge on a channel that never opens --------------- *)
NextNudge ==
  \/ NudgeVlad
  \/ NudgeTimeout
  \/ SessionFail(1)
  \/ StartRecording
  \/ /\ ~isSharingScreen => nTimer + screenReqs + playReqs < MaxShares
     /\ ToggleScreenShare
  \/ DisplayGranted
  \/ PlayOk
  \/ \E f \in Frames : ScreenChange(f)

SpecNudge == Init /\ [][NextNudge]_vars

(* ------------------- the tone of the conversation --------------------- *)
\* A user utterance that completes a turn, a turn that completes without
\* user text, and agent audio.
ToneMsgs ==
  {Msg(0, TRUE, <<"h", "i", "!">>, FALSE, <<>>, TRUE, FALSE),
   Msg(0, FALSE, <<>>, FALSE, <<>>, TRUE, FALSE),
   Msg(1, FALSE, <<>>, FALSE, <<>>, FALSE, FALSE)}

NextTone ==
  \/ \E sid \in Sids : SessionOpen(sid)
  \/ \E sid \in Sids, m \in ToneMsgs : OnMessage(sid, m)
  \/ \E f \in decoding : DecodeDone(f)
  \/ Tick
  \/ Reset

SpecTone == Init /\ [][NextTone]_vars

(* ------------------ turns, manual utterances, reset ------------------- *)
\* Partial texts of both sides, and a turn-complete marker with the last
\* piece of agent text.
TalkMsgs ==
  {Msg(0, TRUE, <<"h", "i", "!">>, TRUE, <<" ", "o", "k">>, FALSE, FALSE),
   Msg(0, FALSE, <<>>, TRUE, <<"h", "i", "!">>, TRUE, FALSE)}

TalkResponses ==
  {TextResp(ToneText("Witty")), TextResp(ToneText("Annoyed")),
   [kind |-> "fail", text |-> <<>>]}

NextTalk ==
  \/ \E sid \in Sids : SessionOpen(sid)
  \/ \E sid \in Sids, m \in TalkMsgs :
       nMsgs < MaxTurnMsgs /\ OnMessage(sid, m)
  \/ \E t \in ManualTexts : HandleTextInput(t)
  \/ HandleManualSay
  \/ \E c \in toneCalls, r \in TalkResponses : ToneDone(c, r)
  \/ Reset

SpecTalk == Init /\ [][NextTalk]_vars

\* Manual utterances with their speech requests and playback
NextSay ==
  \/ \E t \in ManualTexts : HandleTextInput(t)
  \/ HandleManualSay
  \/ \E c \in ttsCalls, a \in {0, 1} : TtsDone(c, a)
  \/ \E c \in ttsCalls : TtsFail(c)
  \/ \E c \in toneCalls, r \in TalkResponses : ToneDone(c, r)
  \/ \E f \in decoding : DecodeDone(f)

SpecSay == Init /\ [][NextSay]_vars

(* ------------------------- sessions and reset ------------------------- *)
SessMsgs ==
  {Msg(0, TRUE, <<" ", "o", "k">>, TRUE, <<"h", "i", "!">>, tc, FALSE) :
     tc \in BOOLEAN}

Next ==
  \/ \E sid \in Sids : SessionOpen(sid)
  \/ \E sid \in Sids : OnClose(sid)
  \/ \E sid \in Sids, m \in SessMsgs : OnMessage(sid, m)
  \/ StartRecording
  \/ MicGranted
  \/ ToggleScreenShare
  \/ DisplayGranted
  \/ PlayOk
  \/ Reset

Spec == Init /\ [][Next]_vars


(* ----------------------- claims: reset, sessions ---------------------- *)
\* C4: when reset() returns, the transcript, both accumulators and both
\* live mirrors are empty, recording and sharing are off, and
\* sessionPromise is a new session, still connecting, with nothing sent
\* or queued on it yet: the one every later send goes to.
C4_Reset ==
  lastEvent.op = "reset" =>
    /\ transcript = <<>>
    /\ currentInput = <<>> /\ currentOutput = <<>>
    /\ liveInputText = <<>> /\ liveOutputText = <<>>
    /\ ~isRecording /\ ~isSharingScreen
    /\ sessionPromise # lastEvent.old
    /\ sessionPromise = Len(sessions)
    /\ sessions[sessionPromise] = "connecting"
    /\ thens[sessionPromise] = <<>> /\ sent[sessionPromise] = <<>>

\* reset() ran on an open session while recording and sharing, with a
\* transcript and a partial input.
C4_Witness ==
  /\ lastEvent.op = "reset"
  /\ lastEvent.oldState = "open"
  /\ lastEvent.wasRecording /\ lastEvent.wasSharing /\ lastEvent.hadText

\* C10: in every reachable state at most one session is live (connecting
\* or open).
C10_OneLiveSession ==
  Cardinality({sid \in Sids : Live(sessions[sid])}) <= 1

(* ------------------------ claims: frame pacer ------------------------- *)
PacerImages(sid) ==
  SelectSeq(sent[sid], LAMBDA c : c.kind = "image" /\ c.src = "pacer")

\* C5: two image chunks that the pacer sends one after the other within
\* one period of sharing differ; a pacer cycle whose frame equals the
\* stored fingerprint sends nothing and queues nothing.
C5_PacerDedup ==
  /\ [](\A sid \in Sids :
          \A k \in 1..(Len(PacerImages(sid)) - 1) :
            PacerImages(sid)[k].ep = PacerImages(sid)[k + 1].ep =>
              PacerImages(sid)[k].data # PacerImages(sid)[k + 1].data)
  /\ [][(/\ lastEvent'.op = "blobDone"
         /\ lastEvent'.blob.src = "pacer"
         /\ lastEvent'.blob.frame = lastFrameData) =>
          UNCHANGED <<sent, thens, lastFrameData>>]_vars

\* A pacer cycle was skipped for a frame equal to the fingerprint, its
\* encode completing after that of a later tick, and the channel holds
\* the image that was sent.
C5_Witness ==
  /\ lastEvent.op = "blobDone"
  /\ lastEvent.blob.src = "pacer"
  /\ lastEvent.blob.frame = lastEvent.last
  /\ lastEvent.blob.id < nBlob
  /\ \A b \in blobs : b.id > lastEvent.blob.id
  /\ Len(PacerImages(1)) >= 1

IsPair(c1, c2, src, frame) ==
  /\ c1.kind = "image" /\ c1.src = src /\ c1.data = frame
  /\ c2.kind = "audio" /\ c2.src = src /\ c2.data = "noise"

\* C6: on an open channel, a nudge while sharing with a frame available
\* starts one encode of that frame, and when the encode completes the
\* image chunk and then a noise chunk are sent whatever the stored
\* fingerprint is; a nudge while not sharing sends exactly one noise chunk.
C6_Nudge ==
  [][/\ (/\ lastEvent'.op = "nudge" /\ lastEvent'.chan = "open"
         /\ lastEvent'.sharing /\ lastEvent'.frame # "none") =>
          /\ sent' = sent
          /\ \E b \in blobs' :
               /\ blobs' = blobs \cup {b} /\ b \notin blobs
               /\ b.src = "nudge" /\ b.frame = screenFrame
               /\ b.sid = sessionPromise
     /\ (/\ lastEvent'.op = "blobDone" /\ lastEvent'.blob.src = "nudge"
         /\ sessions[lastEvent'.blob.sid] = "open") =>
          LET sid == lastEvent'.blob.sid
              n == Len(sent[sid])
          IN  /\ Len(sent'[sid]) = n + 2
              /\ SubSeq(sent'[sid], 1, n) = sent[sid]
              /\ IsPair(sent'[sid][n + 1], sent'[sid][n + 2], "nudge",
                        lastEvent'.blob.frame)
     /\ (/\ lastEvent'.op = "nudge" /\ lastEvent'.chan = "open"
         /\ ~lastEvent'.sharing) =>
          LET sid == sessionPromise
              n == Len(sent[sid])
          IN  /\ blobs' = blobs
              /\ Len(sent'[sid]) = n + 1
              /\ SubSeq(sent'[sid], 1, n) = sent[sid]
              /\ sent'[sid][n + 1].kind = "audio"
              /\ sent'[sid][n + 1].data = "noise"]_vars

\* A nudge frame identical to the stored fingerprint went out, followed
\* by its noise chunk.
C6_Witness ==
  /\ lastEvent.op = "blobDone"
  /\ lastEvent.blob.src = "nudge"
  /\ lastEvent.blob.frame = lastEvent.last
  /\ Len(sent[1]) >= 2
  /\ IsPair(sent[1][Len(sent[1]) - 1], sent[1][Len(sent[1])], "nudge",
            lastEvent.last)


(* ------------------------ claims: prosody rate ------------------------ *)
\* C8: calculatePlaybackRate returns a value in [0.95, 1.10] for every
\* text, and conversationTone is within [0.95, 1.10] in every state.
C8_RateRange ==
  /\ rateOut # 0 => (rateOut >= 95 /\ rateOut <= 110)
  /\ conversationTone >= 95 /\ conversationTone <= 110

\* The largest rate there is was computed, and became the tone of a turn.
C8_Witness ==
  /\ rateOut = 109
  /\ lastEvent.op = "message" /\ conversationTone = 109

\* The number of words of a text: the positions where a run of
\* non-whitespace characters begins.
C9_Words(t) ==
  Cardinality({i \in 1..Len(t) :
                 ~IsWS(t[i]) /\ (i = 1 \/ IsWS(t[i - 1]))})

Ind(b) == IF b THEN 1 ELSE 0

C9_Expected(t) ==
  LET w == C9_Words(t)
      sum == 100 - 2 * Ind(w > 40) + 2 * Ind(0 < w /\ w < 8)
             + 4 * Ind(\E i \in 1..Len(t) : t[i] = "!")
             + 3 * Ind(\E i \in 1..Len(t) : t[i] = "?")
  IN  IF sum < 95 THEN 95 ELSE IF sum > 110 THEN 110 ELSE sum

\* C9: calculatePlaybackRate(text) is the clamped sum of the baseline and
\* the adjustments that apply; 'ok' gives 1.02, fifty words ending in '?'
\* give 1.01, 'Really?!' gives 1.09, 'Hi!' gives 1.06, the empty text 1.00.
C9_RateFormula ==
  rateOut # 0 =>
    /\ rateOut = C9_Expected(rateText)
    /\ rateText = Ok => rateOut = 102
    /\ rateText = FiftyQ => rateOut = 101
    /\ rateText = ReallyQ => rateOut = 109
    /\ rateText = HiBang => rateOut = 106
    /\ rateText = <<>> => rateOut = 100

\* The rate of the fifty-word question was computed.
C9_Witness == rateText = FiftyQ /\ rateOut = 101


(* ------------------- claims: sends before the open -------------------- *)
\* The chunks of the callbacks waiting on a session, in the order of the
\* queue
RECURSIVE QueuedChunks(_)
QueuedChunks(q) ==
  IF q = <<>> THEN <<>>
  ELSE (IF Head(q).op = "send" THEN Head(q).chunks ELSE <<>>)
       \o QueuedChunks(Tail(q))

\* C11: the chunks whose send was issued while the session was connecting
\* reach the channel in the order in which their sends were issued, and
\* when the session opens every chunk queued by a capture block or by the
\* pacer is delivered.
C11_QueuedInOrder ==
  /\ [](\A sid \in Sids :
          \A i \in 1..Len(sent[sid]) : \A j \in i..Len(sent[sid]) :
            (sent[sid][i].tk.conn /\ sent[sid][j].tk.conn) =>
              sent[sid][i].tk.seq <= sent[sid][j].tk.seq)
  /\ [][lastEvent'.op = "open" =>
          LET sid == lastEvent'.sid
              q == QueuedChunks(thens[sid])
          IN  SelectSeq(sent'[sid], LAMBDA c : c.src # "nudge") = q]_vars

(* ---------------------- claims: capture devices ----------------------- *)
\* C12: startRecording() invoked while isRecording is true changes
\* nothing: no device is requested, no node is created, and status,
\* isRecording, mediaStream and the capture nodes stay as they are.
C12_StartWhileRecording ==
  [][(lastEvent'.op = "startRecording" /\ isRecording) =>
       UNCHANGED <<status, error, isRecording, mediaStream,
                   scriptProcessorNode, micReqs, liveMic, liveProc,
                   nStream>>]_vars

\* startRecording() returned at once while the microphone was captured.
C12_Witness ==
  /\ lastEvent.op = "startRecording" /\ lastEvent.was
  /\ isRecording /\ mediaStream # 0 /\ micReqs = 0

\* C13: stopRecording() invoked while isRecording is false and no capture
\* device is held leaves status, isRecording, mediaStream and the capture
\* nodes unchanged.
C13_StopWhileStopped ==
  [][(lastEvent'.op = "stopRecording" /\ ~isRecording /\ mediaStream = 0) =>
       UNCHANGED <<status, isRecording, mediaStream,
                   scriptProcessorNode>>]_vars

\* C14: after a denied microphone request isRecording is false and status
\* carries the message of the device error; after a denied screen request
\* isSharingScreen is false and status carries the message of the error.
C14_DeviceDenied ==
  /\ lastEvent.op = "micDenied" =>
       ~isRecording /\ status = "Error: denied"
  /\ lastEvent.op = "displayDenied" =>
       ~isSharingScreen /\ status = "Screen share error: denied"

\* C15: at most one screen stream is held and at most one frame timer is
\* running, and right after a stop of the sharing no frame timer runs.
C15_SingleShare ==
  /\ Cardinality(liveScreen) <= 1
  /\ Cardinality(timers) <= 1
  /\ (lastEvent.op = "toggleScreenShare" /\ lastEvent.was) => timers = {}

(* ------------------ claims: nudge without a channel ------------------- *)
\* C16: on a session that has not opened, nothing is ever sent; a nudge
\* made then sets status to 'Nudging Vlad...' and changes nothing else
\* that can be observed; when its timer fires, status becomes '' if it
\* still reads 'Nudging Vlad...' and is left as it is otherwise.
C16_NudgeNoChannel ==
  /\ [](\A sid \in Sids :
          sessions[sid] \in {"connecting", "failed"} => sent[sid] = <<>>)
  /\ [][(lastEvent'.op = "nudge" /\ lastEvent'.chan # "open") =>
          /\ status' = "Nudging Vlad..."
          /\ UNCHANGED <<isRecording, isSharingScreen, error, turnVars,
                         toneVars, sessionPromise, sessions, sent, blobs,
                         playVars, micVars, screenStream, frameInterval,
                         lastFrameData, liveScreen, timers>>]_vars
  /\ [][lastEvent'.op = "nudgeTimeout" =>
          /\ status = "Nudging Vlad..." => status' = ""
          /\ status # "Nudging Vlad..." => status' = status
          /\ UNCHANGED <<isRecording, isSharingScreen, error, turnVars,
                         toneVars, chanVars, blobs, playVars, micVars>>]_vars

\* The timer of a nudge made while sharing, on a session that never
\* opened, found the status changed by another command and left it.
C16_Witness ==
  /\ lastEvent.op = "nudgeTimeout"
  /\ nNudge > 0 /\ isSharingScreen /\ screenFrame # "none"
  /\ sessions[1] = "failed"
  /\ status = "Requesting microphone access..."
  /\ sent[1] = <<>> /\ blobs = {}

(* -------------------- claims: decodes in flight ----------------------- *)
\* C17: the fragments are started in the order in which their payloads
\* were received, whatever the order in which their decodes complete.
C17_ReceiptOrder ==
  \A k \in 1..(Len(started) - 1) : started[k].id < started[k + 1].id

\* C18: no fragment received before an interruption, or in the message
\* that carries it, is started after the interruption was processed.
C18_InterruptCancels ==
  \A k \in 1..Len(started) : started[k].callEp = started[k].ep

\* C19: the start time passed to source.start is max(cursor, now): it is
\* never less than the output clock's time at that moment.
C19_StartAtMax ==
  \A k \in 1..Len(started) : started[k].at >= started[k].clock

(* ---------------------- claims: conversation tone --------------------- *)
\* C20: agent audio received right after a turn that completed without
\* user text, or after a reset and before any turn was committed, is
\* played at the baseline rate 1.0.
C20_ToneOneTurn ==
  [][(/\ lastEvent'.op = "message" /\ lastEvent'.msg.audio # 0
      /\ \/ /\ lastEvent.op = "message" /\ lastEvent.msg.turnComplete
            /\ lastEvent.said = <<>>
         \/ sessionPromise > 1 /\ transcript = <<>>) =>
       \A f \in decoding' \ decoding : f.rate = 100]_vars

(* ------------------- claims: tone and transcript ---------------------- *)
\* C21: once no classification call is pending, visualTone is the
\* classification of the most recently finalized agent text: when the
\* latest call has just completed and the completion of an earlier call
\* then leaves none pending, visualTone is what the latest call set.
C21_LatestToneWins ==
  [][(/\ lastEvent.op = "toneDone" /\ lastEvent.id = nTone
      /\ lastEvent'.op = "toneDone" /\ toneCalls' = {}) =>
       visualTone' = visualTone]_vars

\* tr is tr2 or an initial part of it
IsPrefix(tr, tr2) ==
  Len(tr) <= Len(tr2) /\ SubSeq(tr2, 1, Len(tr)) = tr

\* C22: every step other than a reset leaves the transcript as it is or
\* extends it at the end; a turn-complete adds one entry for each
\* non-empty accumulator and a manual utterance adds its one entry.
C22_AppendOnly ==
  [][lastEvent'.op # "reset" =>
       /\ IsPrefix(transcript, transcript')
       /\ (lastEvent'.op = "manualSay" /\ trim(lastEvent'.text) # <<>>) =>
            /\ Len(transcript') = Len(transcript) + 1
            /\ transcript'[Len(transcript')].text = lastEvent'.text
       /\ (lastEvent'.op = "message" /\ lastEvent'.msg.turnComplete) =>
            Len(transcript') = Len(transcript)
              + (IF lastEvent'.said # <<>> THEN 1 ELSE 0)
              + (IF currentOutput \o TextOr(lastEvent'.msg.hasOut,
                                            lastEvent'.msg.outText) # <<>>
                 THEN 1 ELSE 0)]_vars

\* A manual utterance was appended behind the entries of a committed turn.
C22_Witness ==
  /\ lastEvent.op = "manualSay"
  /\ Len(transcript) >= 3
  /\ transcript[1].speaker = "You"
  /\ transcript[Len(transcript)].text = lastEvent.text

\* C24: in every state the live mirrors equal the accumulators, and right
\* after a turn-complete message or a reset all four are empty.
C24_Mirrors ==
  /\ liveInputText = currentInput
  /\ liveOutputText = currentOutput
  /\ (lastEvent.op = "reset"
        \/ (lastEvent.op = "message" /\ lastEvent.msg.turnComplete)) =>
       /\ currentInput = <<>> /\ currentOutput = <<>>
       /\ liveInputText = <<>> /\ liveOutputText = <<>>

\* Both accumulators hold partial text, mirrored, with a turn already in
\* the transcript.
C24_Witness ==
  /\ currentInput # <<>> /\ currentOutput # <<>>
  /\ liveInputText = currentInput /\ liveOutputText = currentOutput
  /\ transcript # <<>>

(* ------------------------ claims: frame sends ------------------------- *)
\* C23: on every session's channel each image chunk is immediately followed
\* by a noise chunk of the same producer issued with it; no microphone
\* block or other chunk lies between the two.
C23_ImageThenNoise ==
  \A sid \in Sids : \A i \in 1..Len(sent[sid]) :
    sent[sid][i].kind = "image" =>
      /\ i < Len(sent[sid])
      /\ sent[sid][i + 1].kind = "audio"
      /\ sent[sid][i + 1].data = "noise"
      /\ sent[sid][i + 1].src = sent[sid][i].src
      /\ sent[sid][i + 1].tk = sent[sid][i].tk

\* While recording, a pacer image and a nudge image were both sent, with a
\* microphone block on the same channel.
C23_Witness ==
  /\ isRecording
  /\ \E sid \in Sids :
       /\ \E i \in 1..Len(sent[sid]) :
            sent[sid][i].kind = "image" /\ sent[sid][i].src = "pacer"
       /\ \E i \in 1..Len(sent[sid]) :
            sent[sid][i].kind = "image" /\ sent[sid][i].src = "nudge"
       /\ \E i \in 1..Len(sent[sid]) : sent[sid][i].src = "mic"

(* ------------------------ claims: error events ------------------------ *)
\* C25: an error event of the channel sets the error text to the event's
\* message and changes nothing else: no session is opened, and recording,
\* sharing, the transcript, the accumulators, the playback cursor and the
\* active sources are as they were.
C25_ErrorOnlyText ==
  [][lastEvent'.op = "error" =>
       /\ error' = lastEvent'.message
       /\ UNCHANGED <<sessionPromise, sessions, isRecording, isSharingScreen,
                      status, transcript, currentInput, currentOutput,
                      liveInputText, liveOutputText, nextStartTime, sources,
                      decoding, mediaStream, scriptProcessorNode, liveMic,
                      liveProc, screenStream, frameInterval, timers,
                      liveScreen>>]_vars

\* An error event arrived while recording and sharing, with a source
\* playing and a committed turn.
C25_Witness ==
  /\ lastEvent.op = "error"
  /\ isRecording /\ isSharingScreen
  /\ sources # {} /\ transcript # <<>>
  /\ error = lastEvent.message

(* --------------------- claims: devices and sessions ------------------- *)
\* C26: while the screen is not shared, the completion of a frame encode
\* that the pacer began before the stop leaves the fingerprint null and
\* sends nothing.
C26_LateFrameDropped ==
  [][(/\ ~isSharingScreen
      /\ lastEvent'.op = "blobDone" /\ lastEvent'.blob.src = "pacer") =>
       /\ lastFrameData' = "null"
       /\ sent' = sent /\ thens' = thens]_vars

\* C27: at most one microphone stream is held and at most one processor
\* forwards blocks, and a stopRecording leaves no acquired stream live.
C27_OneMicrophone ==
  /\ Cardinality(liveMic) <= 1
  /\ Cardinality(liveProc) <= 1
  /\ lastEvent.op = "stopRecording" => liveMic = {}

\* C28: a stopRecording() or reset() issued while startRecording awaits
\* microphone access cancels that start: when the access is granted
\* afterwards, recording stays off and no stream is held.
C28_StopCancelsStart ==
  [][(/\ lastEvent.op \in {"stopRecording", "reset"}
      /\ micReqs > 0
      /\ lastEvent'.op = "micGranted") =>
       /\ ~isRecording'
       /\ liveMic' = liveMic /\ liveProc' = liveProc]_vars

\* C29: a message, close or error event of a session that a reset has
\* replaced changes nothing of the engine: not the status or the error
\* text, not the transcript, the accumulators or the live mirrors, and it
\* schedules no audio.
C29_OldSessionSilent ==
  [][(/\ lastEvent'.op \in {"message", "close", "error"}
      /\ lastEvent'.sid # sessionPromise) =>
       UNCHANGED <<status, error, transcript, currentInput, currentOutput,
                   liveInputText, liveOutputText, decoding, nextStartTime,
                   sources>>]_vars

\* C30: when play() fails for the one screen stream that was acquired,
\* with no share active and no timer running, the start is undone:
\* sharing is off, the stream's tracks are stopped, screenStream is null
\* and no frame timer runs.
C30_PlayFailReleases ==
  [][(/\ lastEvent'.op = "playFail"
      /\ ~isSharingScreen /\ timers = {}
      /\ screenStream # 0 /\ liveScreen = {screenStream}) =>
       /\ ~isSharingScreen'
       /\ screenStream' = 0 /\ liveScreen' = {}
       /\ timers' = {}]_vars

====
